---- MODULE Spec2Model ----
(***************************************************************************)
(* Model of scan_dir_for_duplicates.py: class ScanDirForDuplicates and the *)
(* script at the end of the module.                                        *)
(*                                                                         *)
(* A directory is the sequence of entries os.scandir yields; an entry is   *)
(* known by its position in that sequence (its DirEntry.name).  A Python   *)
(* dict is a sequence of [key, val] records in insertion order, which is   *)
(* the order .values() and .items() iterate in.  An attribute or a name    *)
(* that may be unset is a sequence of length 0 (unset) or 1 (set).         *)
(***************************************************************************)
EXTENDS Integers, Sequences, FiniteSets

\* ---------------------------------------------------------------- bounds
MaxFiles == 4     \* entries of the scanned directory
MaxLen   == 3     \* longest file content fed to get_hash alone
MaxBlock == 3     \* largest blocksize tried for get_hash alone
MaxScans == 2     \* constructions of a scanner over the same directory

\* --------------------------------------------------------------- constants
blocksize == 65536
SepWidth  == 80
UncaughtExitStatus == 1

Bytes == {0, 1}
\* contents of the files of a scanned directory: sizes 0, 1 (two contents), 2
FileContents == {<<>>, <<0>>, <<1>>, <<0, 1>>}

ErrorKinds == {"NotFound", "NotADirectory", "PermissionDenied",
               "MetadataUnavailable", "IoError"}
EnumErrors == {"NotFound", "NotADirectory", "PermissionDenied"}

VARIABLES
    dir,          \* the directory: sequence of entries in enumeration order
    pc,           \* position of the program
    file_list,    \* self._file_list: names of the entries kept
    i,            \* loop index of find_duplicates_size
    by_size,      \* local dict of find_duplicates_size
    dup_size,     \* self._duplicates_size
    b, j,         \* bucket / entry position of the loops of find_duplicates_hash
    by_hash,      \* local dict of find_duplicates_hash
    duplicates,   \* self.duplicates: <<>> while unset, <<mapping>> once set
    hashed,       \* names passed to get_hash so far, in call order
    err,          \* the exception raised: "none" or its kind
    d,            \* module-level name d: <<>> unbound, <<mapping>> bound
    stdout,       \* what __str__ returned / print wrote
    stderr,       \* lines the interpreter wrote for an uncaught exception
    exit,         \* exit status of the script, -1 while running
    scans,        \* scanners constructed so far
    prev,         \* duplicates of the previous scanner
    \* get_hash alone, one read per step
    hcontent,     \* content of the file being hashed
    bsize,        \* self.blocksize
    fpos,         \* file position of f
    buf,          \* local buf
    hasher,       \* state of the hasher
    chunks,       \* arguments of hasher.update so far
    hpc           \* position inside get_hash

vars == <<dir, pc, file_list, i, by_size, dup_size, b, j, by_hash, duplicates,
          hashed, err, d, stdout, stderr, exit, scans, prev,
          hcontent, bsize, fpos, buf, hasher, chunks, hpc>>

scanVars == <<dir, pc, file_list, i, by_size, dup_size, b, j, by_hash,
              duplicates, hashed, err, d, stdout, stderr, exit, scans, prev>>
hashVars == <<hcontent, bsize, fpos, buf, hasher, chunks, hpc>>

\* ------------------------------------------------------------ filesystem
\* target: what the entry resolves to when links are followed
EntryShapes ==
    {[kind |-> "file", target |-> "file", content |-> c] : c \in FileContents}
    \cup {[kind |-> "dir", target |-> "dir", content |-> <<>>]}
    \cup {[kind |-> "symlink", target |-> "file", content |-> c] : c \in FileContents}
    \cup {[kind |-> "symlink", target |-> "dir", content |-> <<>>]}

Dirs == UNION {[1..n -> EntryShapes] : n \in 0..MaxFiles}

is_file(e)    == e.target = "file"
is_symlink(e) == e.kind = "symlink"
st_size(e)    == Len(e.content)

\* ------------------------------------------------------------------ dicts
EmptyDict == <<>>
HasKey(m, k) == \E x \in DOMAIN m : m[x].key = k
Members(l) == {l[x] : x \in DOMAIN l}

\* ------------------------------------------------------------- hashing
Min(x, y) == IF x <= y THEN x ELSE y

\* f.read(n) at position pos of a regular file
Read(content, pos, n) == SubSeq(content, pos + 1, Min(pos + n, Len(content)))

NewHasher == 0

RECURSIVE Update(_, _)
Update_dropsData(h, data) == h + Len(data)
\* hasher.update(data): the state is a function of the whole stream fed so far
Update(h, data) ==
    IF data = <<>> THEN h
    ELSE Update(h * (Cardinality(Bytes) + 1) + (Head(data) + 1), Tail(data))

hexdigest(h) == h

LoopCond_fullBlocksOnly(bf, n) == Len(bf) = n
\* while len(buf):
LoopCond(bf, n) == Len(bf) > 0

RECURSIVE ReadLoop(_, _, _, _)
ReadLoop(h, content, pos, n) ==
    LET bf == Read(content, pos, n)
    IN  IF LoopCond(bf, n)
        THEN ReadLoop(Update(h, bf), content, pos + Len(bf), n)
        ELSE h

get_hash(content, n) == hexdigest(ReadLoop(NewHasher, content, 0, n))

\* ------------------------------------------------------------ the scanner
scan_for_files_noSymlinkTest(dr) ==
    SelectSeq([x \in DOMAIN dr |-> x], LAMBDA x : is_file(dr[x]))
scan_for_files(dr) ==
    SelectSeq([x \in DOMAIN dr |-> x],
              LAMBDA x : is_file(dr[x]) /\ ~is_symlink(dr[x]))

remove_unique_keepsAll(m) == SelectSeq(m, LAMBDA kv : Len(kv.val) > 0)
remove_unique(m) == SelectSeq(m, LAMBDA kv : Len(kv.val) > 1)

AddBySize_overwrites(m, size, e) ==
    IF ~HasKey(m, size)
    THEN Append(m, [key |-> size, val |-> <<e>>])
    ELSE [x \in DOMAIN m |->
            IF m[x].key = size THEN [m[x] EXCEPT !.val = <<e>>] ELSE m[x]]
\* lines 47-50
AddBySize(m, size, e) ==
    IF ~HasKey(m, size)
    THEN Append(m, [key |-> size, val |-> <<e>>])
    ELSE [x \in DOMAIN m |->
            IF m[x].key = size THEN [m[x] EXCEPT !.val = Append(@, e)] ELSE m[x]]

AddByHash_prepends(m, h, e) ==
    IF ~HasKey(m, h)
    THEN Append(m, [key |-> h, val |-> <<e>>])
    ELSE [x \in DOMAIN m |->
            IF m[x].key = h THEN [m[x] EXCEPT !.val = <<e>> \o @] ELSE m[x]]
\* lines 67-70
AddByHash(m, h, e) ==
    IF ~HasKey(m, h)
    THEN Append(m, [key |-> h, val |-> <<e>>])
    ELSE [x \in DOMAIN m |->
            IF m[x].key = h THEN [m[x] EXCEPT !.val = Append(@, e)] ELSE m[x]]

\* ---------------------------------------------------------------- report
NoDupLine == [t |-> "No duplicates found", hash |-> 0, size |-> 0,
              files |-> <<>>, sep |-> 0]
FoundLine == [t |-> "Found duplicates", hash |-> 0, size |-> 0,
              files |-> <<>>, sep |-> 0]
\* lines 28-31: one record of the report
Record(kv, dr) == [t |-> "record", hash |-> kv.key,
                   size |-> st_size(dr[kv.val[1]]),
                   files |-> kv.val, sep |-> SepWidth]

\* __str__ of an instance whose duplicates is selfdups, while the module-level
\* name d is dglobal
Str(selfdups, dglobal, dr) ==
    IF selfdups = EmptyDict
    THEN [raised |-> "none", text |-> <<NoDupLine>>]
    ELSE IF dglobal = <<>>
         THEN [raised |-> "NameError", text |-> <<>>]
         ELSE [raised |-> "none",
               text |-> <<FoundLine>> \o
                        [x \in DOMAIN dglobal[1] |-> Record(dglobal[1][x], dr)]]

ExitStatus_alwaysZero(raised) == 0
\* exit status of the script: 0 at its end, 1 for any exception nobody catches
ExitStatus(raised) == IF raised = "none" THEN 0 ELSE UncaughtExitStatus

\* what the interpreter writes for an exception nobody catches
Traceback(kind) == <<"Traceback (most recent call last):", "  File ...", kind>>

\* ------------------------------------------------------------------- Init
HashIdle ==
    /\ hcontent = <<>>
    /\ bsize = blocksize
    /\ fpos = 0
    /\ buf = <<>>
    /\ hasher = NewHasher
    /\ chunks = <<>>
    /\ hpc = "off"

ScanStart ==
    /\ file_list = <<>>
    /\ i = 1
    /\ by_size = EmptyDict
    /\ dup_size = EmptyDict
    /\ b = 1
    /\ j = 1
    /\ by_hash = EmptyDict
    /\ duplicates = <<>>
    /\ hashed = <<>>
    /\ err = "none"
    /\ d = <<>>
    /\ stdout = <<>>
    /\ stderr = <<>>
    /\ exit = -1
    /\ scans = 1
    /\ prev = <<>>

Init ==
    /\ dir \in Dirs
    /\ pc = "init"
    /\ ScanStart
    /\ HashIdle

\* ------------------------------------------------- __init__, step by step
\* line 18, and line 44 on entry to find_duplicates_size
ScanForFiles ==
    /\ pc = "init"
    /\ file_list' = scan_for_files(dir)
    /\ by_size' = EmptyDict
    /\ i' = 1
    /\ pc' = "size"
    /\ UNCHANGED <<dir, dup_size, b, j, by_hash, duplicates, hashed, err, d,
                   stdout, stderr, exit, scans, prev>>
    /\ UNCHANGED hashVars

\* os.scandir raises
ScanForFilesRaise ==
    /\ pc = "init"
    /\ \E k \in EnumErrors : err' = k
    /\ pc' = "error"
    /\ UNCHANGED <<dir, file_list, i, by_size, dup_size, b, j, by_hash,
                   duplicates, hashed, d, stdout, stderr, exit, scans, prev>>
    /\ UNCHANGED hashVars

\* one iteration of the loop of find_duplicates_size
SizeStep ==
    /\ pc = "size"
    /\ i <= Len(file_list)
    /\ by_size' = AddBySize(by_size, st_size(dir[file_list[i]]), file_list[i])
    /\ i' = i + 1
    /\ UNCHANGED <<dir, pc, file_list, dup_size, b, j, by_hash, duplicates,
                   hashed, err, d, stdout, stderr, exit, scans, prev>>
    /\ UNCHANGED hashVars

\* stat() raises
StatRaise ==
    /\ pc = "size"
    /\ i <= Len(file_list)
    /\ err' = "MetadataUnavailable"
    /\ pc' = "error"
    /\ UNCHANGED <<dir, file_list, i, by_size, dup_size, b, j, by_hash,
                   duplicates, hashed, d, stdout, stderr, exit, scans, prev>>
    /\ UNCHANGED hashVars

SizeDone_staleByHash ==
    /\ pc = "size"
    /\ i > Len(file_list)
    /\ dup_size' = remove_unique(by_size)
    /\ b' = 1
    /\ j' = 1
    /\ pc' = "hash"
    /\ UNCHANGED <<dir, file_list, i, by_size, by_hash, duplicates, hashed, err,
                   d, stdout, stderr, exit, scans, prev>>
    /\ UNCHANGED hashVars
\* lines 51 and 19, and line 63 on entry to find_duplicates_hash
SizeDone ==
    /\ pc = "size"
    /\ i > Len(file_list)
    /\ dup_size' = remove_unique(by_size)
    /\ by_hash' = EmptyDict
    /\ b' = 1
    /\ j' = 1
    /\ pc' = "hash"
    /\ UNCHANGED <<dir, file_list, i, by_size, duplicates, hashed, err, d,
                   stdout, stderr, exit, scans, prev>>
    /\ UNCHANGED hashVars

\* the loops of lines 64-65 move on
Advance ==
    IF j < Len(dup_size[b].val)
    THEN b' = b /\ j' = j + 1
    ELSE b' = b + 1 /\ j' = 1

\* one iteration of the inner loop of find_duplicates_hash
HashStep ==
    /\ pc = "hash"
    /\ b <= Len(dup_size)
    /\ LET e == dup_size[b].val[j]
       IN  /\ hashed' = Append(hashed, e)
           /\ by_hash' = AddByHash(by_hash, get_hash(dir[e].content, blocksize), e)
    /\ Advance
    /\ UNCHANGED <<dir, pc, file_list, i, by_size, dup_size, duplicates, err, d,
                   stdout, stderr, exit, scans, prev>>
    /\ UNCHANGED hashVars

HashRaise_skipsEntry ==
    /\ pc = "hash"
    /\ b <= Len(dup_size)
    /\ hashed' = Append(hashed, dup_size[b].val[j])
    /\ err' = "IoError"
    /\ Advance
    /\ UNCHANGED <<dir, pc, file_list, i, by_size, dup_size, by_hash,
                   duplicates, d, stdout, stderr, exit, scans, prev>>
    /\ UNCHANGED hashVars
\* open or read raises inside get_hash
HashRaise ==
    /\ pc = "hash"
    /\ b <= Len(dup_size)
    /\ hashed' = Append(hashed, dup_size[b].val[j])
    /\ err' = "IoError"
    /\ pc' = "error"
    /\ UNCHANGED <<dir, file_list, i, by_size, dup_size, b, j, by_hash,
                   duplicates, d, stdout, stderr, exit, scans, prev>>
    /\ UNCHANGED hashVars

\* lines 71 and 20
HashDone ==
    /\ pc = "hash"
    /\ b > Len(dup_size)
    /\ duplicates' = <<remove_unique(by_hash)>>
    /\ pc' = "done"
    /\ UNCHANGED <<dir, file_list, i, by_size, dup_size, b, j, by_hash, hashed,
                   err, d, stdout, stderr, exit, scans, prev>>
    /\ UNCHANGED hashVars

\* ---------------------------------------------------- users of an instance
\* line 76: the script binds d to the instance it constructed
MainAssign ==
    /\ pc = "done"
    /\ d' = duplicates
    /\ pc' = "bound"
    /\ UNCHANGED <<dir, file_list, i, by_size, dup_size, b, j, by_hash,
                   duplicates, hashed, err, stdout, stderr, exit, scans, prev>>
    /\ UNCHANGED hashVars

\* line 77: print(d)
MainPrint ==
    /\ pc = "bound"
    /\ LET r == Str(duplicates[1], d, dir)
       IN  /\ stdout' = r.text
           /\ err' = r.raised
           /\ exit' = ExitStatus(r.raised)
    /\ pc' = "exited"
    /\ UNCHANGED <<dir, file_list, i, by_size, dup_size, b, j, by_hash,
                   duplicates, hashed, d, stderr, scans, prev>>
    /\ UNCHANGED hashVars

\* print(instance) by a caller that imported the class (docstring, line 12)
StrCall ==
    /\ pc = "done"
    /\ LET r == Str(duplicates[1], d, dir)
       IN  /\ stdout' = r.text
           /\ err' = r.raised
    /\ pc' = "returned"
    /\ UNCHANGED <<dir, file_list, i, by_size, dup_size, b, j, by_hash,
                   duplicates, hashed, d, stderr, exit, scans, prev>>
    /\ UNCHANGED hashVars

\* line 76 raises and nothing catches it: the script ends
MainUncaught ==
    /\ pc = "error"
    /\ exit' = ExitStatus(err)
    /\ stderr' = Traceback(err)
    /\ pc' = "exited"
    /\ UNCHANGED <<dir, file_list, i, by_size, dup_size, b, j, by_hash,
                   duplicates, hashed, err, d, stdout, scans, prev>>
    /\ UNCHANGED hashVars

\* a second ScanDirForDuplicates(path) over the unchanged directory
Rescan ==
    /\ pc = "done"
    /\ scans < MaxScans
    /\ scans' = scans + 1
    /\ prev' = duplicates
    /\ file_list' = <<>>
    /\ dup_size' = EmptyDict
    /\ duplicates' = <<>>
    /\ hashed' = <<>>
    /\ pc' = "init"
    /\ UNCHANGED <<dir, i, by_size, b, j, by_hash, err, d, stdout, stderr, exit>>
    /\ UNCHANGED hashVars

Construct ==
    \/ ScanForFiles
    \/ SizeStep
    \/ SizeDone
    \/ HashStep
    \/ HashDone

Next ==
    \/ Construct
    \/ ScanForFilesRaise
    \/ StatRaise
    \/ HashRaise
    \/ MainAssign
    \/ MainPrint
    \/ StrCall
    \/ MainUncaught

Spec == Init /\ [][Next]_vars

NextRescan ==
    \/ Construct
    \/ Rescan

SpecRescan == Init /\ [][NextRescan]_vars

\* ------------------------------------------------- get_hash, read by read
Contents == UNION {[1..n -> Bytes] : n \in 0..MaxLen}

HashInit ==
    /\ hcontent \in Contents
    /\ bsize \in 1..MaxBlock
    /\ fpos = 0
    /\ buf = <<>>
    /\ hasher = NewHasher
    /\ chunks = <<>>
    /\ hpc = "open"
    /\ dir = <<>>
    /\ pc = "off"
    /\ ScanStart

\* lines 54-56
OpenAndRead ==
    /\ hpc = "open"
    /\ buf' = Read(hcontent, 0, bsize)
    /\ fpos' = Len(buf')
    /\ hpc' = "loop"
    /\ UNCHANGED <<hcontent, bsize, hasher, chunks>>
    /\ UNCHANGED scanVars

\* lines 57-59
LoopBody ==
    /\ hpc = "loop"
    /\ LoopCond(buf, bsize)
    /\ hasher' = Update(hasher, buf)
    /\ chunks' = Append(chunks, buf)
    /\ buf' = Read(hcontent, fpos, bsize)
    /\ fpos' = fpos + Len(buf')
    /\ UNCHANGED <<hcontent, bsize, hpc>>
    /\ UNCHANGED scanVars

\* line 60
Return ==
    /\ hpc = "loop"
    /\ ~LoopCond(buf, bsize)
    /\ hpc' = "done"
    /\ UNCHANGED <<hcontent, bsize, fpos, buf, hasher, chunks>>
    /\ UNCHANGED scanVars

HashNext ==
    \/ OpenAndRead
    \/ LoopBody
    \/ Return

SpecHash == HashInit /\ [][HashNext]_vars /\ WF_vars(HashNext)

\* ================================================================ claims
Dups == duplicates[1]
Regular == {x \in DOMAIN dir : dir[x].kind = "file"}
ListsWith(m, x) == {k \in DOMAIN m : x \in Members(m[k].val)}
Held(m) == UNION {Members(m[k].val) : k \in DOMAIN m}
SharesSize(x) ==
    \E y \in Members(file_list) : y # x /\ st_size(dir[y]) = st_size(dir[x])
Pos(l, x) == CHOOSE n \in DOMAIN l : l[n] = x

RECURSIVE Flatten(_)
Flatten(ss) == IF ss = <<>> THEN <<>> ELSE Head(ss) \o Flatten(Tail(ss))

\* C1: once the scan has completed, any two distinct regular non-symlink
\* entries with identical content are both in the list of exactly one key of
\* self.duplicates, and in the list of no other key; keys are not repeated.
C1_Completeness ==
    duplicates # <<>> =>
        /\ \A k1, k2 \in DOMAIN Dups : Dups[k1].key = Dups[k2].key => k1 = k2
        /\ \A f1, f2 \in Regular :
              (f1 # f2 /\ dir[f1].content = dir[f2].content) =>
                  \E k \in DOMAIN Dups :
                      ListsWith(Dups, f1) = {k} /\ ListsWith(Dups, f2) = {k}

C1_Witness ==
    /\ duplicates # <<>>
    /\ Len(Dups) >= 2
    /\ \E f1, f2 \in Regular : f1 # f2 /\ dir[f1].content = dir[f2].content

\* C2: every list of the returned mapping has at least two entries, and all
\* entries of one list have the same content and the same size, also when
\* by_hash received entries from several size buckets.
C2_Soundness ==
    duplicates # <<>> =>
        \A k \in DOMAIN Dups :
            /\ Len(Dups[k].val) >= 2
            /\ \A x, y \in Members(Dups[k].val) :
                  /\ dir[x].content = dir[y].content
                  /\ st_size(dir[x]) = st_size(dir[y])

C2_Witness ==
    /\ duplicates # <<>>
    /\ Len(dup_size) >= 2
    /\ Len(Dups) >= 1
    /\ \E x \in Members(hashed) : x \notin Held(Dups)

\* C3: get_hash is called only on entries whose size another entry of
\* _file_list shares, at most once each; when the scan completes it has been
\* called on every such entry, and with no shared size it was never called
\* and the result is the empty mapping.
C3_SizePrefilter ==
    /\ \A x \in Members(hashed) : x \in Members(file_list) /\ SharesSize(x)
    /\ \A p, q \in DOMAIN hashed : hashed[p] = hashed[q] => p = q
    /\ duplicates # <<>> =>
          /\ Len(hashed) = Cardinality({x \in Members(file_list) : SharesSize(x)})
          /\ (\A x \in Members(file_list) : ~SharesSize(x)) =>
                 (hashed = <<>> /\ Dups = EmptyDict)

C3_Witness ==
    /\ duplicates # <<>>
    /\ hashed # <<>>
    /\ \E x \in Members(file_list) : ~SharesSize(x) /\ x \notin Members(hashed)

\* C4: an entry that is a symbolic link or a directory is never in
\* _file_list, in a size bucket, passed to get_hash, or in self.duplicates.
C4_Exclusion ==
    \A x \in DOMAIN dir :
        dir[x].kind # "file" =>
            /\ x \notin Members(file_list)
            /\ x \notin Held(by_size)
            /\ x \notin Held(dup_size)
            /\ x \notin Members(hashed)
            /\ x \notin Held(by_hash)
            /\ duplicates # <<>> => x \notin Held(Dups)

C4_Witness ==
    /\ duplicates # <<>>
    /\ \E x, y, z \in DOMAIN dir :
          /\ dir[x].kind = "symlink" /\ dir[x].target = "file"
          /\ dir[y].kind = "file" /\ dir[y].content = dir[x].content
          /\ dir[z].kind = "dir"

\* C5: within every list of self.duplicates the entries are in the relative
\* order they have in _file_list.
C5_StableGrouping ==
    duplicates # <<>> =>
        \A k \in DOMAIN Dups :
            \A p, q \in DOMAIN Dups[k].val :
                p < q => Pos(file_list, Dups[k].val[p]) < Pos(file_list, Dups[k].val[q])

C5_Witness ==
    /\ duplicates # <<>>
    /\ \E k \in DOMAIN Dups : Len(Dups[k].val) >= 3
    /\ Len(file_list) < Len(dir)

Aborted ==
    err \in ErrorKinds =>
        (pc \in {"error", "exited"} /\ duplicates = <<>> /\ d = <<>> /\ stdout = <<>>)

NothingAfterAbort ==
    err \in ErrorKinds =>
        (hashed' = hashed /\ by_hash' = by_hash /\ duplicates' = <<>>)

\* C6: once enumeration, a stat or a read has failed, the scan is over: the
\* exception has left __init__, no duplicates mapping exists on the instance
\* or under the name d, nothing is reported, and no further file is hashed or
\* grouped.
C6_AbortNoPartial == []Aborted /\ [][NothingAfterAbort]_vars

C6_Witness ==
    /\ err = "IoError"
    /\ pc = "exited"
    /\ Len(hashed) >= 3
    /\ \E k \in DOMAIN by_hash : Len(by_hash[k].val) >= 2

\* C7: the text __str__ gives for an instance is the single no-duplicates
\* line when its mapping is empty, and otherwise holds, for every set of that
\* instance's own mapping, the digest, the size, the member names and a
\* separator, whatever the module-level name d is bound to.
C7_ReportOfOwnMapping ==
    (pc \in {"exited", "returned"} /\ duplicates # <<>>) =>
        /\ err = "none"
        /\ Dups = EmptyDict => stdout = <<NoDupLine>>
        /\ Dups # EmptyDict =>
              \A k \in DOMAIN Dups :
                  \E l \in DOMAIN stdout :
                      /\ stdout[l].hash = Dups[k].key
                      /\ stdout[l].size = st_size(dir[Dups[k].val[1]])
                      /\ stdout[l].files = Dups[k].val
                      /\ stdout[l].sep = SepWidth

\* C8: a second scan of the unchanged directory yields the mapping of the
\* scan before it: same keys, same lists, same order.
C8_Determinism ==
    (scans >= 2 /\ duplicates # <<>>) => duplicates = prev

C8_Witness ==
    /\ scans = MaxScans
    /\ duplicates # <<>>
    /\ Len(Dups) >= 1
    /\ Len(hashed) > Cardinality(Held(Dups))

\* C9 as stated: a failed scan ends the script with a non-zero status that
\* no other error kind would give, one line of diagnostic, and no report.
C9_DistinctExitPerKind ==
    (pc = "exited" /\ err \in ErrorKinds) =>
        /\ exit # 0
        /\ \A k \in ErrorKinds \ {err} : ExitStatus(k) # exit
        /\ Len(stderr) = 1
        /\ stdout = <<>>

\* C9 as amended: a failed scan ends the script with status 1 whatever the
\* error kind, the interpreter's traceback, which ends with the exception,
\* on stderr, and no report.
C9_UncaughtExit ==
    (pc = "exited" /\ err \in ErrorKinds) =>
        /\ exit = UncaughtExitStatus
        /\ exit # 0
        /\ Len(stderr) > 1
        /\ stderr[Len(stderr)] = err
        /\ stdout = <<>>

C9_Witness ==
    /\ pc = "exited"
    /\ err = "MetadataUnavailable"
    /\ by_size # EmptyDict

HashChunkInv ==
    /\ \A c \in DOMAIN chunks : Len(chunks[c]) >= 1 /\ Len(chunks[c]) <= bsize
    /\ Flatten(chunks) = SubSeq(hcontent, 1, Len(Flatten(chunks)))
    /\ hpc = "done" =>
          /\ Flatten(chunks) = hcontent
          /\ hexdigest(hasher) = hexdigest(Update(NewHasher, hcontent))
          /\ \A n \in 1..MaxBlock : get_hash(hcontent, n) = hexdigest(hasher)

\* C10: every chunk fed to the hasher has between 1 and blocksize bytes, the
\* chunks fed so far are a prefix of the file; when get_hash returns they
\* are the whole file and the digest is that of hashing the content in one
\* call, whatever the blocksize; and get_hash returns.
C10_ChunkedHashing == []HashChunkInv /\ <>(hpc = "done")

C10_Witness ==
    /\ hpc = "done"
    /\ Len(chunks) >= 2
    /\ Len(hcontent) = Len(chunks) * bsize

====
